---- MODULE Spec2Model ----
(***************************************************************************)
(* Model of the account backend of RusseLiteratureServer: the SQLite       *)
(* credential store (internal/storage/sqlite), the Auth service            *)
(* (internal/services/auth), the gRPC transport's input validation, the    *)
(* tenant registry (apps table) and the REST authorization middleware      *)
(* (internal/app/rest).                                                    *)
(*                                                                         *)
(* The storage revision modelled is the per-user-rows revision of          *)
(* sqlite.go (lines 316-819).  Every SQL statement is one atomic step: the *)
(* code runs its statements outside any transaction, so other requests may *)
(* interleave between two statements of one call.                          *)
(***************************************************************************)
EXTENDS Integers, Sequences, FiniteSets, Bags, TLC

\* ---------------------------------------------------------------- bounds
NumProcs == 2   \* concurrent requests in flight
MaxId    == 3   \* cap on the rowid the users table hands out
MaxTime  == 3   \* the clock stops here
TokenTTL == 2   \* the configured token time-to-live, in seconds

Procs     == 1 .. NumProcs
Clients   == {1}                 \* the sequential client of Spec
Phones    == {"", "p1", "p2"}   \* "" is the empty identity
Passwords == {"", "a", "b"}     \* "" is the empty password
Salts     == {"s1", "s2"}       \* bcrypt draws a fresh salt per hash
AppIDs    == {0, 1, 2, 3}       \* 0 is the absent / zero tenant id

\* Seed content of the apps table (provisioned out of band).
AppRows == { [id |-> 1, name |-> "app1", secret |-> "test-secret"],
             [id |-> 2, name |-> "app2", secret |-> "other-secret"] }

\* Seed rows of the per-user tables: one catalogue item per table.
SeedRows(item) == SetToBag({ [userId |-> 0, itemId |-> item, isFave |-> 0] })

VARIABLES
    users,      \* table users: set of rows [id, phone, pass_hash, name, image]
    authors,    \* table authors: bag of rows [userId, itemId, isFave]
    articles,   \* table articles: bag of rows [userId, itemId, isFave]
    poets,      \* table poets: bag of rows [userId, itemId, isFave]
    apps,       \* table apps: set of rows [id, name, secret]
    pc,         \* pc[p]: position of request p in its handler
    req,        \* req[p]: the request's operation and arguments
    loc,        \* loc[p]: the handler's local variables
    resp,       \* resp[p]: what the call returned
    crashed,    \* TRUE once an unrecovered panic has taken the server down
    registered, \* history: phone -> id of the successful, undeleted Registers
    assigned,   \* history: the ids LastInsertId has handed out so far
    deleted,    \* history: the phones whose users row a DeleteUser removed
    feed,       \* feed-JSON revision: table feed, user id -> its three maps
    now,        \* the clock, in whole seconds
    issued,     \* the token the Token Issuer handed out last, with its inputs
    mw          \* the last request through AuthMiddleware and its outcome

store == <<users, authors, articles, poets, apps>>
procs == <<pc, req, loc, resp>>
authz == <<now, issued, mw>>
vars  == <<users, authors, articles, poets, apps, pc, req, loc, resp,
           crashed, registered, assigned, deleted, feed, now, issued, mw>>

\* ------------------------------------------------------------ error values
NoErr           == "nil"
ErrUserExists   == "user already exists"     \* storage.ErrUserExists
ErrAppNotFound  == "app not found"           \* storage.ErrAppNotFound
ErrUserNotFound == "user not found"          \* storage.ErrUserNotFound
ErrCanceled     == "context canceled"        \* context.Canceled
ErrPasswordTooLong == "bcrypt: password length exceeds 72 bytes"
ErrPanic        == "panic: not implemented"

NoReq  == [op |-> "none", phone |-> "", password |-> "", appID |-> 0, userID |-> 0,
           itemID |-> 0, candidate |-> "", srvErr |-> "nil", isFave |-> "",
           authed |-> FALSE, ctxUid |-> 0]
NoLoc  == [passHash |-> <<>>, id |-> 0, dup |-> FALSE, inserts |-> 0,
           currentIsFave |-> 0,
           authorIDs |-> EmptyBag, poetIDs |-> EmptyBag, articleIDs |-> EmptyBag]
NoResp == [code |-> "none", msg |-> "", err |-> NoErr, id |-> 0,
           token |-> <<>>, secret |-> "", isAdmin |-> FALSE]

\* ---------------------------------------------------------- pure helpers
Max(S) == CHOOSE x \in S : \A y \in S : y <= x
Min(S) == CHOOSE x \in S : \A y \in S : x <= y

\* Plaintexts the Password Hasher is exercised with.  "P72" stands for a
\* password of exactly 72 bytes and "P72x" for the same 72 bytes followed by
\* one more byte; every other plaintext is shorter than 72 bytes.
Plaintexts == {"", "a", "b", "P72", "P72x"}

\* len(password) > 72
TooLong(password) == password = "P72x"

\* The key material bcrypt feeds to its Blowfish key schedule: the first 72
\* bytes of the password.
Key(password) == IF password = "P72x" THEN "P72" ELSE password

\* bcrypt.GenerateFromPassword: the hash embeds its salt; the third component
\* stands for the digest of the salt and the key material, not the plaintext.
GenerateFromPassword(password, salt) == <<"bcrypt", salt, Key(password)>>

\* Byte strings that are not a bcrypt hash: empty, too short, wrong prefix.
CorruptHashes == { <<>>, <<"bcrypt">>, <<"bcrypt", "s1">>, <<"md5", "s1", "a">> }

\* Mutant: the digest is not compared.
CompareFormatOnly(hash, password) ==
    Len(hash) = 3 /\ hash[1] = "bcrypt"

\* bcrypt.CompareHashAndPassword: a hash that is too short or has another
\* prefix is an error (no match); otherwise the candidate is rehashed with
\* the embedded salt and the digests are compared.
CompareHashAndPassword(hash, password) ==
    Len(hash) = 3 /\ hash[1] = "bcrypt" /\ hash = GenerateFromPassword(password, hash[2])

\* Mutant: the users table without its UNIQUE constraint.
UniqueViolationDropped(rows, phone) == FALSE

\* The UNIQUE constraint on the users' natural key.
UniqueViolation(rows, phone) == \E u \in rows : u.phone = phone

\* res.LastInsertId() of an INTEGER PRIMARY KEY table: largest rowid plus one.
LastInsertId(rows) == IF rows = {} THEN 1 ELSE Max({u.id : u \in rows}) + 1

\* SELECT <itemId> FROM <table>: one value per row, duplicates kept.
RECURSIVE SelectIDsOver(_, _)
SelectIDsOver(table, rows) ==
    IF rows = {} THEN EmptyBag
    ELSE LET r == CHOOSE x \in rows : TRUE
         IN  [i \in {r.itemId} |-> CopiesIn(r, table)] (+) SelectIDsOver(table, rows \ {r})

SelectIDs(table) == SelectIDsOver(table, BagToSet(table))

\* DELETE FROM <table> WHERE userId = ?
DeleteRowsOf(table, uid) ==
    LET keep == {r \in BagToSet(table) : r.userId # uid}
    IN  [r \in keep |-> CopiesIn(r, table)]

\* INSERT INTO <table>(userId, itemId, isFave) VALUES(?, ?, 0)
InsertRow(table, uid, item) ==
    table (+) SetToBag({ [userId |-> uid, itemId |-> item, isFave |-> 0] })

\* One element taken off a bag of ids (the loop variable of a range loop).
Head1(ids) == Min(BagToSet(ids))
Tail1(ids) == ids (-) SetToBag({Head1(ids)})


\* ------------------------------------------------- transport-layer handlers
\* Mutant: the password check is missing.
ValidateRegisterNoPassword(phone, password) ==
    IF phone = "" THEN "phone is required" ELSE ""

\* Input validation of the gRPC Register handler: identity first, then password.
ValidateRegister(phone, password) ==
    IF phone = "" THEN "phone is required"
    ELSE IF password = "" THEN "password is required"
    ELSE ""

\* Mutant: the password is checked before the identity.
ValidateLoginPasswordFirst(phone, password, appID) ==
    IF password = "" THEN "password is required"
    ELSE IF phone = "" THEN "phone is required"
    ELSE IF appID = 0 THEN "app_id is required"
    ELSE ""

\* Mutant: the tenant id is not checked.
ValidateLoginNoApp(phone, password, appID) ==
    IF phone = "" THEN "phone is required"
    ELSE IF password = "" THEN "password is required"
    ELSE ""

\* Input validation of the gRPC Login handler: identity, password, tenant id.
ValidateLogin(phone, password, appID) ==
    IF phone = "" THEN "phone is required"
    ELSE IF password = "" THEN "password is required"
    ELSE IF appID = 0 THEN "app_id is required"
    ELSE ""

\* Status the transport reports for an error of the Auth service.
StatusOf(err) ==
    IF err = NoErr THEN "OK"
    ELSE IF err = ErrUserExists THEN "AlreadyExists"
    ELSE IF err = ErrPanic THEN "Panic"
    ELSE IF err = ErrCanceled THEN "Canceled"
    ELSE "Internal"

Reply(err, id) ==
    [NoResp EXCEPT !.code = StatusOf(err),
                   !.msg  = IF err = NoErr THEN "" ELSE err,
                   !.err  = err,
                   !.id   = id]

Invalid(msg) == [NoResp EXCEPT !.code = "InvalidArgument", !.msg = msg, !.err = msg]

\* ---------------------------------------------------------- Password Hasher
\* hash(plaintext): bcrypt.GenerateFromPassword as RegisterNewUser calls it.
\* Releases of x/crypto differ on a password longer than 72 bytes: it is
\* either refused with ErrPasswordTooLong or hashed by its first 72 bytes.
HashPassword(p, password) ==
    /\ ~crashed
    /\ pc[p] = "idle"
    /\ req' = [req EXCEPT ![p] = [NoReq EXCEPT !.op = "Verify", !.password = password]]
    /\ \/ /\ \E salt \in Salts :
               loc' = [loc EXCEPT ![p] =
                          [NoLoc EXCEPT !.passHash = GenerateFromPassword(password, salt)]]
          /\ resp' = [resp EXCEPT ![p] = NoResp]
          /\ pc' = [pc EXCEPT ![p] = "hashed"]
       \/ /\ TooLong(password)
          /\ loc' = [loc EXCEPT ![p] = NoLoc]
          /\ resp' = [resp EXCEPT ![p] = Reply(ErrPasswordTooLong, 0)]
          /\ pc' = [pc EXCEPT ![p] = "done"]
    /\ UNCHANGED <<store, crashed, registered, assigned, deleted, feed, authz>>

\* verify(candidate, hash) on the hash just produced.
VerifyPassword(p, candidate) ==
    /\ ~crashed
    /\ pc[p] = "hashed"
    /\ req' = [req EXCEPT ![p].candidate = candidate]
    /\ resp' = [resp EXCEPT ![p] =
                  [NoResp EXCEPT !.code = IF CompareHashAndPassword(loc[p].passHash, candidate)
                                          THEN "match" ELSE "mismatch"]]
    /\ pc' = [pc EXCEPT ![p] = "done"]
    /\ UNCHANGED <<store, loc, crashed, registered, assigned, deleted, feed, authz>>

\* verify(candidate, hash) on a byte string that is not a hash.
VerifyCorrupt(p, hash, candidate) ==
    /\ ~crashed
    /\ pc[p] = "idle"
    /\ req' = [req EXCEPT ![p] = [NoReq EXCEPT !.op = "VerifyCorrupt", !.candidate = candidate]]
    /\ loc' = [loc EXCEPT ![p] = [NoLoc EXCEPT !.passHash = hash]]
    /\ resp' = [resp EXCEPT ![p] =
                  [NoResp EXCEPT !.code = IF CompareHashAndPassword(hash, candidate)
                                          THEN "match" ELSE "mismatch"]]
    /\ pc' = [pc EXCEPT ![p] = "done"]
    /\ UNCHANGED <<store, crashed, registered, assigned, deleted, feed, authz>>

\* --------------------------------------------------------------- Register
\* Register handler, then Auth.RegisterNewUser up to its call of SaveUser.
Register(p, phone, password) ==
    /\ ~crashed
    /\ pc[p] = "idle"
    /\ req' = [req EXCEPT ![p] = [NoReq EXCEPT !.op = "Register", !.phone = phone,
                                               !.password = password]]
    /\ IF ValidateRegister(phone, password) # ""
       THEN /\ resp' = [resp EXCEPT ![p] = Invalid(ValidateRegister(phone, password))]
            /\ pc' = [pc EXCEPT ![p] = "done"]
            /\ loc' = [loc EXCEPT ![p] = NoLoc]
       ELSE /\ \E salt \in Salts :
                 loc' = [loc EXCEPT ![p] =
                            [NoLoc EXCEPT !.passHash = GenerateFromPassword(password, salt)]]
            /\ pc' = [pc EXCEPT ![p] = "insUser"]
            /\ resp' = [resp EXCEPT ![p] = NoResp]
    /\ UNCHANGED <<store, crashed, registered, assigned, deleted, feed, authz>>

\* Mutant: the statement is INSERT OR REPLACE, so a second registration of
\* an identity replaces its row instead of failing.
SaveUserInsertOrReplace(p) ==
    /\ ~crashed
    /\ pc[p] = "insUser"
    /\ LastInsertId(users) <= MaxId
    /\ users' = {u \in users : u.phone # req[p].phone} \cup
                { [id |-> LastInsertId(users), phone |-> req[p].phone,
                   pass_hash |-> loc[p].passHash, name |-> "", image |-> ""] }
    /\ loc' = [loc EXCEPT ![p].id = LastInsertId(users),
                          ![p].dup = req[p].phone \in DOMAIN registered,
                          ![p].inserts = @ + 1]
    /\ assigned' = assigned \cup {LastInsertId(users)}
    /\ pc' = [pc EXCEPT ![p] = "selAuthors"]
    /\ UNCHANGED <<authors, articles, poets, apps, req, resp, crashed, registered, deleted, feed, authz>>

\* Mutant: after a uniqueness violation the INSERT is tried once more.
SaveUserInsertRetry(p) ==
    /\ ~crashed
    /\ pc[p] = "insUser"
    /\ IF UniqueViolation(users, req[p].phone)
       THEN /\ IF loc[p].inserts >= 1
               THEN /\ resp' = [resp EXCEPT ![p] = Reply(ErrUserExists, 0)]
                    /\ pc' = [pc EXCEPT ![p] = "done"]
               ELSE UNCHANGED <<resp, pc>>
            /\ loc' = [loc EXCEPT ![p].dup = req[p].phone \in DOMAIN registered,
                                  ![p].inserts = @ + 1]
            /\ UNCHANGED <<users, assigned>>
       ELSE /\ LastInsertId(users) <= MaxId
            /\ users' = users \cup { [id |-> LastInsertId(users), phone |-> req[p].phone,
                                      pass_hash |-> loc[p].passHash,
                                      name |-> "", image |-> ""] }
            /\ loc' = [loc EXCEPT ![p].id = LastInsertId(users),
                                  ![p].dup = req[p].phone \in DOMAIN registered,
                                  ![p].inserts = @ + 1]
            /\ assigned' = assigned \cup {LastInsertId(users)}
            /\ pc' = [pc EXCEPT ![p] = "selAuthors"]
            /\ UNCHANGED resp
    /\ UNCHANGED <<authors, articles, poets, apps, req, crashed, registered, deleted, feed, authz>>

\* SaveUser: INSERT INTO users(phone, pass_hash, name, image); LastInsertId.
\* On a uniqueness violation SaveUser returns (0, ErrUserExists) and
\* RegisterNewUser returns (0, wrapped error).
SaveUserInsert(p) ==
    /\ ~crashed
    /\ pc[p] = "insUser"
    /\ IF UniqueViolation(users, req[p].phone)
       THEN /\ resp' = [resp EXCEPT ![p] = Reply(ErrUserExists, 0)]
            /\ pc' = [pc EXCEPT ![p] = "done"]
            /\ loc' = [loc EXCEPT ![p].dup = req[p].phone \in DOMAIN registered,
                                  ![p].inserts = @ + 1]
            /\ UNCHANGED <<users, assigned>>
       ELSE /\ LastInsertId(users) <= MaxId
            /\ users' = users \cup { [id |-> LastInsertId(users), phone |-> req[p].phone,
                                      pass_hash |-> loc[p].passHash,
                                      name |-> "", image |-> ""] }
            /\ loc' = [loc EXCEPT ![p].id = LastInsertId(users),
                                  ![p].dup = req[p].phone \in DOMAIN registered,
                                  ![p].inserts = @ + 1]
            /\ assigned' = assigned \cup {LastInsertId(users)}
            /\ pc' = [pc EXCEPT ![p] = "selAuthors"]
            /\ UNCHANGED resp
    /\ UNCHANGED <<authors, articles, poets, apps, req, crashed, registered, deleted, feed, authz>>

\* SaveUser: SELECT authorId FROM authors
SaveUserSelectAuthors(p) ==
    /\ ~crashed
    /\ pc[p] = "selAuthors"
    /\ loc' = [loc EXCEPT ![p].authorIDs = SelectIDs(authors)]
    /\ pc' = [pc EXCEPT ![p] = "selPoets"]
    /\ UNCHANGED <<store, req, resp, crashed, registered, assigned, deleted, feed, authz>>

\* SaveUser: SELECT poetId FROM poets
SaveUserSelectPoets(p) ==
    /\ ~crashed
    /\ pc[p] = "selPoets"
    /\ loc' = [loc EXCEPT ![p].poetIDs = SelectIDs(poets)]
    /\ pc' = [pc EXCEPT ![p] = "selArticles"]
    /\ UNCHANGED <<store, req, resp, crashed, registered, assigned, deleted, feed, authz>>

\* SaveUser: SELECT articleId FROM articles
SaveUserSelectArticles(p) ==
    /\ ~crashed
    /\ pc[p] = "selArticles"
    /\ loc' = [loc EXCEPT ![p].articleIDs = SelectIDs(articles)]
    /\ pc' = [pc EXCEPT ![p] = "insAuthors"]
    /\ UNCHANGED <<store, req, resp, crashed, registered, assigned, deleted, feed, authz>>

\* SaveUser: one iteration of the loop over authorIDs.
SaveUserInsertAuthor(p) ==
    /\ ~crashed
    /\ pc[p] = "insAuthors"
    /\ IF loc[p].authorIDs = EmptyBag
       THEN /\ pc' = [pc EXCEPT ![p] = "insPoets"]
            /\ UNCHANGED <<authors, loc>>
       ELSE /\ authors' = InsertRow(authors, loc[p].id, Head1(loc[p].authorIDs))
            /\ loc' = [loc EXCEPT ![p].authorIDs = Tail1(loc[p].authorIDs)]
            /\ UNCHANGED pc
    /\ UNCHANGED <<users, articles, poets, apps, req, resp, crashed, registered, assigned, deleted, feed, authz>>

\* SaveUser: one iteration of the loop over poetIDs.
SaveUserInsertPoet(p) ==
    /\ ~crashed
    /\ pc[p] = "insPoets"
    /\ IF loc[p].poetIDs = EmptyBag
       THEN /\ pc' = [pc EXCEPT ![p] = "insArticles"]
            /\ UNCHANGED <<poets, loc>>
       ELSE /\ poets' = InsertRow(poets, loc[p].id, Head1(loc[p].poetIDs))
            /\ loc' = [loc EXCEPT ![p].poetIDs = Tail1(loc[p].poetIDs)]
            /\ UNCHANGED pc
    /\ UNCHANGED <<users, authors, articles, apps, req, resp, crashed, registered, assigned, deleted, feed, authz>>

\* SaveUser: one iteration of the loop over articleIDs; after the last one
\* SaveUser returns (id, nil) and RegisterNewUser returns (id, nil).
SaveUserInsertArticle(p) ==
    /\ ~crashed
    /\ pc[p] = "insArticles"
    /\ IF loc[p].articleIDs = EmptyBag
       THEN /\ pc' = [pc EXCEPT ![p] = "done"]
            /\ resp' = [resp EXCEPT ![p] = Reply(NoErr, loc[p].id)]
            /\ registered' = (req[p].phone :> loc[p].id) @@ registered
            /\ UNCHANGED <<articles, loc>>
       ELSE /\ articles' = InsertRow(articles, loc[p].id, Head1(loc[p].articleIDs))
            /\ loc' = [loc EXCEPT ![p].articleIDs = Tail1(loc[p].articleIDs)]
            /\ UNCHANGED <<pc, resp, registered>>
    /\ UNCHANGED <<users, authors, poets, apps, req, crashed, assigned, deleted, feed, authz>>

\* The caller takes the reply; the request slot is free again.
Return(p) ==
    /\ ~crashed
    /\ pc[p] = "done"
    /\ pc' = [pc EXCEPT ![p] = "idle"]
    /\ req' = [req EXCEPT ![p] = NoReq]
    /\ loc' = [loc EXCEPT ![p] = NoLoc]
    /\ resp' = [resp EXCEPT ![p] = NoResp]
    /\ UNCHANGED <<store, crashed, registered, assigned, deleted, feed, authz>>


\* ------------------------------------------------------------- DeleteUser
\* Storage.DeleteUser is entered: its four statements are prepared.
DeleteUser(p, userID) ==
    /\ ~crashed
    /\ pc[p] = "idle"
    /\ req' = [req EXCEPT ![p] = [NoReq EXCEPT !.op = "DeleteUser", !.userID = userID]]
    /\ loc' = [loc EXCEPT ![p] = NoLoc]
    /\ resp' = [resp EXCEPT ![p] = NoResp]
    /\ pc' = [pc EXCEPT ![p] = "delUser"]
    /\ UNCHANGED <<store, crashed, registered, assigned, deleted, feed, authz>>

\* Mutant: the statement has no WHERE clause, so every credential goes.
DeleteUserRowAll(p) ==
    /\ ~crashed
    /\ pc[p] = "delUser"
    /\ users' = {}
    /\ deleted' = deleted \cup {u.phone : u \in users}
    /\ registered' = << >>
    /\ pc' = [pc EXCEPT ![p] = "delAuthors"]
    /\ UNCHANGED <<authors, articles, poets, apps, req, loc, resp, crashed, assigned, feed, authz>>

\* DELETE FROM users WHERE id = ?
DeleteUserRow(p) ==
    /\ ~crashed
    /\ pc[p] = "delUser"
    /\ users' = {u \in users : u.id # req[p].userID}
    /\ deleted' = deleted \cup {u.phone : u \in {x \in users : x.id = req[p].userID}}
    /\ registered' = [ph \in {x \in DOMAIN registered : registered[x] # req[p].userID}
                        |-> registered[ph]]
    /\ pc' = [pc EXCEPT ![p] = "delAuthors"]
    /\ UNCHANGED <<authors, articles, poets, apps, req, loc, resp, crashed, assigned, feed, authz>>

\* DELETE FROM authors WHERE userId = ?
DeleteUserAuthors(p) ==
    /\ ~crashed
    /\ pc[p] = "delAuthors"
    /\ authors' = DeleteRowsOf(authors, req[p].userID)
    /\ pc' = [pc EXCEPT ![p] = "delArticles"]
    /\ UNCHANGED <<users, articles, poets, apps, req, loc, resp, crashed, registered, assigned, deleted, feed, authz>>

\* DELETE FROM articles WHERE userId = ?
DeleteUserArticles(p) ==
    /\ ~crashed
    /\ pc[p] = "delArticles"
    /\ articles' = DeleteRowsOf(articles, req[p].userID)
    /\ pc' = [pc EXCEPT ![p] = "delPoets"]
    /\ UNCHANGED <<users, authors, poets, apps, req, loc, resp, crashed, registered, assigned, deleted, feed, authz>>

\* DELETE FROM poets WHERE userId = ?; the error of this last statement is
\* the one DeleteUser returns.
DeleteUserPoets(p) ==
    /\ ~crashed
    /\ pc[p] = "delPoets"
    /\ poets' = DeleteRowsOf(poets, req[p].userID)
    /\ resp' = [resp EXCEPT ![p] = Reply(NoErr, 0)]
    /\ pc' = [pc EXCEPT ![p] = "done"]
    /\ UNCHANGED <<users, authors, articles, apps, req, loc, crashed, registered, assigned, deleted, feed, authz>>

\* ------------------------------------------------------------------ Login
\* Auth.Login: the body is panic("not implemented"); no token is returned.
AuthLogin(phone, password, appID) ==
    [token |-> <<>>, err |-> ErrPanic, panicked |-> TRUE]

\* Login handler: validates its input, then calls Auth.Login.  The gRPC
\* server is built without a recovery interceptor, so a panic in the
\* handler ends the server process.
Login(p, phone, password, appID) ==
    /\ ~crashed
    /\ pc[p] = "idle"
    /\ req' = [req EXCEPT ![p] = [NoReq EXCEPT !.op = "Login", !.phone = phone,
                                  !.password = password, !.appID = appID]]
    /\ loc' = [loc EXCEPT ![p] = NoLoc]
    /\ pc' = [pc EXCEPT ![p] = "done"]
    /\ IF ValidateLogin(phone, password, appID) # ""
       THEN /\ resp' = [resp EXCEPT ![p] = Invalid(ValidateLogin(phone, password, appID))]
            /\ UNCHANGED crashed
       ELSE LET r == AuthLogin(phone, password, appID)
            IN  /\ resp' = [resp EXCEPT ![p] = [Reply(r.err, 0) EXCEPT !.token = r.token]]
                /\ crashed' = r.panicked
    /\ UNCHANGED <<store, registered, assigned, deleted, feed, authz>>

\* -------------------------------------------------------- tenant registry
\* Storage.App: SELECT name, secret FROM apps, first row scanned.  The query
\* has no WHERE clause and the method takes no tenant id; SQL fixes no row
\* order, so the row returned is any row of the table.
StorageApp(rows) ==
    IF rows = {} THEN { [secret |-> "", err |-> ErrAppNotFound] }
    ELSE { [secret |-> r.secret, err |-> NoErr] : r \in rows }

\* A caller resolves the signing secret of tenant appID through AppProvider.
App(p, appID) ==
    /\ ~crashed
    /\ pc[p] = "idle"
    /\ req' = [req EXCEPT ![p] = [NoReq EXCEPT !.op = "App", !.appID = appID]]
    /\ loc' = [loc EXCEPT ![p] = NoLoc]
    /\ \E r \in StorageApp(apps) :
          resp' = [resp EXCEPT ![p] = [Reply(r.err, 0) EXCEPT !.secret = r.secret]]
    /\ pc' = [pc EXCEPT ![p] = "done"]
    /\ UNCHANGED <<store, crashed, registered, assigned, deleted, feed, authz>>

\* Secrets an operator may rotate a tenant to.
NewSecrets == {"test-secret", "other-secret", "rotated-secret"}

\* The operator replaces the secret of a tenant (apps is provisioned out of
\* band; its secret column is UNIQUE).
RotateSecret(appID, secret) ==
    /\ \E a \in apps : a.id = appID /\ a.secret # secret
    /\ \A a \in apps : a.secret # secret
    /\ apps' = { IF a.id = appID THEN [a EXCEPT !.secret = secret] ELSE a : a \in apps }
    /\ UNCHANGED <<users, authors, articles, poets, procs, crashed, registered, assigned, deleted, feed, authz>>

\* ---------------------------------------------------------------- IsAdmin
\* Auth.IsAdmin: the body is panic("not implemented").
AuthIsAdmin(userID) ==
    [isAdmin |-> FALSE, err |-> ErrPanic, panicked |-> TRUE]

\* IsAdmin handler: calls Auth.IsAdmin; the panic ends the server process.
IsAdmin(p, userID) ==
    /\ ~crashed
    /\ pc[p] = "idle"
    /\ req' = [req EXCEPT ![p] = [NoReq EXCEPT !.op = "IsAdmin", !.userID = userID]]
    /\ loc' = [loc EXCEPT ![p] = NoLoc]
    /\ pc' = [pc EXCEPT ![p] = "done"]
    /\ LET r == AuthIsAdmin(userID)
       IN  /\ resp' = [resp EXCEPT ![p] = [Reply(r.err, 0) EXCEPT !.isAdmin = r.isAdmin]]
           /\ crashed' = r.panicked
    /\ UNCHANGED <<store, registered, assigned, deleted, feed, authz>>

\* ------------------------------------------------- content reads and updates
\* Storage.GetUser: SELECT name, image FROM users WHERE id = ?
GetUser(p, userID) ==
    /\ ~crashed
    /\ pc[p] = "idle"
    /\ req' = [req EXCEPT ![p] = [NoReq EXCEPT !.op = "GetUser", !.userID = userID]]
    /\ loc' = [loc EXCEPT ![p] = NoLoc]
    /\ resp' = [resp EXCEPT ![p] =
                  IF \E u \in users : u.id = userID
                  THEN Reply(NoErr, userID) ELSE Reply(ErrUserNotFound, 0)]
    /\ pc' = [pc EXCEPT ![p] = "done"]
    /\ UNCHANGED <<store, crashed, registered, assigned, deleted, feed, authz>>

\* The rows of a per-user table for one user and one item.
RowsOf(table, uid, item) ==
    {r \in BagToSet(table) : r.userId = uid /\ r.itemId = item}

\* Mutant: the WHERE clause of the UPDATE names the item only.
SetIsFaveAnyUser(table, uid, item, v) ==
    LET upd(r) == IF r.itemId = item THEN [r EXCEPT !.isFave = v] ELSE r
        img    == {upd(r) : r \in BagToSet(table)}
    IN  [x \in img |->
            IF x.itemId = item
            THEN CopiesIn([x EXCEPT !.isFave = 0], table) + CopiesIn([x EXCEPT !.isFave = 1], table)
            ELSE CopiesIn(x, table)]

\* UPDATE <table> SET isFave = ? WHERE userId = ? AND <itemId> = ?
SetIsFave(table, uid, item, v) ==
    LET upd(r) == IF r.userId = uid /\ r.itemId = item THEN [r EXCEPT !.isFave = v] ELSE r
        img    == {upd(r) : r \in BagToSet(table)}
    IN  [x \in img |->
            IF x.userId = uid /\ x.itemId = item
            THEN CopiesIn([x EXCEPT !.isFave = 0], table) + CopiesIn([x EXCEPT !.isFave = 1], table)
            ELSE CopiesIn(x, table)]

\* Mutant: sql.ErrNoRows is not looked at: the zero flag is taken as read and
\* the UPDATE runs.
UpdateAuthorIsFaveNoRowsIgnored(p, userID, authorID) ==
    /\ ~crashed
    /\ pc[p] = "idle"
    /\ req' = [req EXCEPT ![p] = [NoReq EXCEPT !.op = "UpdateAuthorIsFave",
                                               !.userID = userID, !.itemID = authorID]]
    /\ \E f \in {r.isFave : r \in RowsOf(authors, userID, authorID)} \cup
                 (IF RowsOf(authors, userID, authorID) = {} THEN {0} ELSE {}) :
          loc' = [loc EXCEPT ![p] = [NoLoc EXCEPT !.currentIsFave = f]]
    /\ resp' = [resp EXCEPT ![p] = NoResp]
    /\ pc' = [pc EXCEPT ![p] = "updAuthor"]
    /\ UNCHANGED <<store, crashed, registered, assigned, deleted, feed, authz>>

\* Storage.UpdateAuthorIsFave: SELECT isFave FROM authors WHERE userId = ? AND
\* authorId = ?; no row is an error, otherwise the flag read is kept.
UpdateAuthorIsFave(p, userID, authorID) ==
    /\ ~crashed
    /\ pc[p] = "idle"
    /\ req' = [req EXCEPT ![p] = [NoReq EXCEPT !.op = "UpdateAuthorIsFave",
                                               !.userID = userID, !.itemID = authorID]]
    /\ IF RowsOf(authors, userID, authorID) = {}
       THEN /\ resp' = [resp EXCEPT ![p] = Reply("author not found", 0)]
            /\ loc' = [loc EXCEPT ![p] = NoLoc]
            /\ pc' = [pc EXCEPT ![p] = "done"]
       ELSE /\ \E r \in RowsOf(authors, userID, authorID) :
                  loc' = [loc EXCEPT ![p] = [NoLoc EXCEPT !.currentIsFave = r.isFave]]
            /\ resp' = [resp EXCEPT ![p] = NoResp]
            /\ pc' = [pc EXCEPT ![p] = "updAuthor"]
    /\ UNCHANGED <<store, crashed, registered, assigned, deleted, feed, authz>>

\* Storage.UpdateAuthorIsFave: UPDATE authors SET isFave = 1 - currentIsFave.
UpdateAuthorIsFaveExec(p) ==
    /\ ~crashed
    /\ pc[p] = "updAuthor"
    /\ authors' = SetIsFave(authors, req[p].userID, req[p].itemID, 1 - loc[p].currentIsFave)
    /\ resp' = [resp EXCEPT ![p] = Reply(NoErr, 0)]
    /\ pc' = [pc EXCEPT ![p] = "done"]
    /\ UNCHANGED <<users, articles, poets, apps, req, loc, crashed, registered, assigned, deleted, feed, authz>>

\* Storage.UpdateArticleIsFave: SELECT isFave FROM articles WHERE userId = ?
\* AND articleId = ?
UpdateArticleIsFave(p, userID, articleID) ==
    /\ ~crashed
    /\ pc[p] = "idle"
    /\ req' = [req EXCEPT ![p] = [NoReq EXCEPT !.op = "UpdateArticleIsFave",
                                               !.userID = userID, !.itemID = articleID]]
    /\ IF RowsOf(articles, userID, articleID) = {}
       THEN /\ resp' = [resp EXCEPT ![p] = Reply("article not found", 0)]
            /\ loc' = [loc EXCEPT ![p] = NoLoc]
            /\ pc' = [pc EXCEPT ![p] = "done"]
       ELSE /\ \E r \in RowsOf(articles, userID, articleID) :
                  loc' = [loc EXCEPT ![p] = [NoLoc EXCEPT !.currentIsFave = r.isFave]]
            /\ resp' = [resp EXCEPT ![p] = NoResp]
            /\ pc' = [pc EXCEPT ![p] = "updArticle"]
    /\ UNCHANGED <<store, crashed, registered, assigned, deleted, feed, authz>>

\* Storage.UpdateArticleIsFave: UPDATE articles SET isFave = 1 - currentIsFave.
UpdateArticleIsFaveExec(p) ==
    /\ ~crashed
    /\ pc[p] = "updArticle"
    /\ articles' = SetIsFave(articles, req[p].userID, req[p].itemID, 1 - loc[p].currentIsFave)
    /\ resp' = [resp EXCEPT ![p] = Reply(NoErr, 0)]
    /\ pc' = [pc EXCEPT ![p] = "done"]
    /\ UNCHANGED <<users, authors, poets, apps, req, loc, crashed, registered, assigned, deleted, feed, authz>>

\* Storage.UpdatePoetIsFave: SELECT isFave FROM poets WHERE userId = ? AND
\* poetId = ?
UpdatePoetIsFave(p, userID, poetID) ==
    /\ ~crashed
    /\ pc[p] = "idle"
    /\ req' = [req EXCEPT ![p] = [NoReq EXCEPT !.op = "UpdatePoetIsFave",
                                               !.userID = userID, !.itemID = poetID]]
    /\ IF RowsOf(poets, userID, poetID) = {}
       THEN /\ resp' = [resp EXCEPT ![p] = Reply("poet not found", 0)]
            /\ loc' = [loc EXCEPT ![p] = NoLoc]
            /\ pc' = [pc EXCEPT ![p] = "done"]
       ELSE /\ \E r \in RowsOf(poets, userID, poetID) :
                  loc' = [loc EXCEPT ![p] = [NoLoc EXCEPT !.currentIsFave = r.isFave]]
            /\ resp' = [resp EXCEPT ![p] = NoResp]
            /\ pc' = [pc EXCEPT ![p] = "updPoet"]
    /\ UNCHANGED <<store, crashed, registered, assigned, deleted, feed, authz>>

\* Storage.UpdatePoetIsFave: UPDATE poets SET isFave = 1 - currentIsFave.
UpdatePoetIsFaveExec(p) ==
    /\ ~crashed
    /\ pc[p] = "updPoet"
    /\ poets' = SetIsFave(poets, req[p].userID, req[p].itemID, 1 - loc[p].currentIsFave)
    /\ resp' = [resp EXCEPT ![p] = Reply(NoErr, 0)]
    /\ pc' = [pc EXCEPT ![p] = "done"]
    /\ UNCHANGED <<users, authors, articles, apps, req, loc, crashed, registered, assigned, deleted, feed, authz>>

\* ------------------------------------------------------------ cancellation
\* SaveUser still has a statement to run at this position.
HasStatement(p) ==
    \/ pc[p] \in {"insUser", "selAuthors", "selPoets", "selArticles"}
    \/ pc[p] = "insAuthors" /\ (loc[p].authorIDs # EmptyBag \/ loc[p].poetIDs # EmptyBag
                                  \/ loc[p].articleIDs # EmptyBag)
    \/ pc[p] = "insPoets" /\ (loc[p].poetIDs # EmptyBag \/ loc[p].articleIDs # EmptyBag)
    \/ pc[p] = "insArticles" /\ loc[p].articleIDs # EmptyBag

\* The request's context is cancelled while SaveUser runs: its next
\* ExecContext / QueryContext returns the context's error, SaveUser returns
\* it at once (nothing is undone: there is no transaction) and
\* RegisterNewUser returns (0, wrapped error).
SaveUserCanceled(p) ==
    /\ ~crashed
    /\ HasStatement(p)
    /\ loc' = [loc EXCEPT ![p].inserts = IF pc[p] = "insUser" THEN @ + 1 ELSE @]
    /\ resp' = [resp EXCEPT ![p] = Reply(ErrCanceled, 0)]
    /\ pc' = [pc EXCEPT ![p] = "done"]
    /\ UNCHANGED <<store, req, crashed, registered, assigned, deleted, feed, authz>>

\* ------------------------------------------------- failing DELETE statements
\* The error ExecContext returns when the database file is locked by another
\* connection (SQLITE_BUSY).
ErrBusy == "database is locked"

\* One of the first three ExecContext calls of DeleteUser fails: the
\* statement changes nothing, its error is assigned to err and overwritten by
\* the next call, and DeleteUser goes on.
DeleteUserExecFails(p) ==
    /\ ~crashed
    /\ pc[p] \in {"delUser", "delAuthors", "delArticles"}
    /\ pc' = [pc EXCEPT ![p] = CASE pc[p] = "delUser" -> "delAuthors"
                                 [] pc[p] = "delAuthors" -> "delArticles"
                                 [] OTHER -> "delPoets"]
    /\ UNCHANGED <<store, req, loc, resp, crashed, registered, assigned, deleted, feed, authz>>

\* The last ExecContext of DeleteUser fails: this error is the one checked.
DeleteUserPoetsFails(p) ==
    /\ ~crashed
    /\ pc[p] = "delPoets"
    /\ resp' = [resp EXCEPT ![p] = Reply(ErrBusy, 0)]
    /\ pc' = [pc EXCEPT ![p] = "done"]
    /\ UNCHANGED <<store, req, loc, crashed, registered, assigned, deleted, feed, authz>>

\* ------------------------------------------------------ REST application
\* Errors http.Server.ListenAndServe returns (it never returns nil).
ErrServerClosed == "http: Server closed"
ListenErrs == {ErrServerClosed, "listen tcp: address already in use"}

\* restapp.App.Run: the error of ListenAndServe is wrapped and returned only
\* if it is ErrServerClosed; any other error is dropped and Run returns nil.
RestRun(srvErr) ==
    IF srvErr # "nil" /\ srvErr = ErrServerClosed THEN "restapp.Run: " \o srvErr ELSE NoErr

\* restapp.App.MustRun: panics with the error Run returns, if any.
MustRun(p, srvErr) ==
    /\ pc[p] = "idle"
    /\ req' = [req EXCEPT ![p] = [NoReq EXCEPT !.op = "MustRun", !.srvErr = srvErr]]
    /\ loc' = [loc EXCEPT ![p] = NoLoc]
    /\ resp' = [resp EXCEPT ![p] =
                  [NoResp EXCEPT !.err = RestRun(srvErr),
                                 !.msg = IF RestRun(srvErr) = NoErr THEN "" ELSE RestRun(srvErr),
                                 !.code = IF RestRun(srvErr) = NoErr THEN "OK" ELSE "Panic"]]
    /\ pc' = [pc EXCEPT ![p] = "done"]
    /\ UNCHANGED <<store, crashed, registered, assigned, deleted, feed, authz>>

\* ----------------------------------------------- tokens and AuthMiddleware
Secrets == {"test-secret", "other-secret"}

\* A token string: either not a JWT at all (malformed), or a JWT with its
\* claims and the secret its HMAC signature was computed with.  The uid claim
\* may be a JSON number, a JSON string, or absent; exp may be absent.
NoTok == [malformed |-> TRUE, uidKind |-> "absent", uid |-> 0, phone |-> "",
          app_id |-> 0, hasExp |-> FALSE, exp |-> 0, sig |-> ""]

\* jwt.NewToken of the Token Issuer: claims uid, phone, app_id, exp = now + ttl,
\* signed HS256 with the tenant's secret.
NewToken(uid, phone, app, ttl, t) ==
    [malformed |-> FALSE, uidKind |-> "num", uid |-> uid, phone |-> phone,
     app_id |-> app.id, hasExp |-> TRUE, exp |-> t + ttl, sig |-> app.secret]

\* Tokens a client may present besides the one it was issued.
ForgedTokens ==
    {NoTok} \cup
    { [malformed |-> FALSE, uidKind |-> k, uid |-> IF k = "num" THEN 1 ELSE 0,
       phone |-> "p1", app_id |-> 1, hasExp |-> e,
       exp |-> IF e THEN x ELSE 0, sig |-> s] :
         k \in {"num", "str", "absent"}, e \in BOOLEAN, x \in {1}, s \in Secrets }

\* An Authorization header: `bearer` leading copies of "Bearer ", then the
\* token string if hasTok.  The empty header has neither.
NoHdr == [bearer |-> 0, hasTok |-> FALSE, tok |-> NoTok]

\* strings.Replace(authHeader, "Bearer ", "", 1): the first scheme prefix goes.
StripBearer(hdr) == [hdr EXCEPT !.bearer = IF hdr.bearer > 0 THEN hdr.bearer - 1 ELSE 0]

\* Mutant: a token is still accepted at its expiration instant.
ParseErrLateExpiry(hdr, secret, t) ==
    IF hdr.bearer > 0 \/ ~hdr.hasTok \/ hdr.tok.malformed THEN "token is malformed"
    ELSE IF hdr.tok.sig # secret THEN "signature is invalid"
    ELSE IF hdr.tok.hasExp /\ t > hdr.tok.exp THEN "token is expired"
    ELSE ""

\* jwt.Parse(tokenString, keyFunc): segments decoded, HMAC verified with the
\* key the key function returns, then exp (if present) compared to the time.
ParseErr(hdr, secret, t) ==
    IF hdr.bearer > 0 \/ ~hdr.hasTok \/ hdr.tok.malformed THEN "token is malformed"
    ELSE IF hdr.tok.sig # secret THEN "signature is invalid"
    ELSE IF hdr.tok.hasExp /\ ~(t < hdr.tok.exp) THEN "token is expired"
    ELSE ""

NoIssued == [tok |-> NoTok, given |-> FALSE, uid |-> 0, phone |-> "", secret |-> "",
             at |-> 0]

NoMw == [hdr |-> NoHdr, at |-> 0, status |-> 0, msg |-> "", next |-> FALSE,
         ctxUid |-> 0, fromIssuer |-> FALSE, grant |-> NoIssued]

\* Mutant: the error of jwt.Parse is not looked at.
AuthMiddlewareIgnoresErr(hdr, t) ==
    LET tokenString == StripBearer(hdr)
        out == [NoMw EXCEPT !.hdr = hdr, !.at = t, !.status = 401]
    IN  IF hdr.bearer = 0 /\ ~hdr.hasTok
        THEN [out EXCEPT !.msg = "Authorization header is missing"]
        ELSE IF tokenString.tok.uidKind # "num"
        THEN [out EXCEPT !.msg = "UID not found in JWT token claims"]
        ELSE [out EXCEPT !.status = 200, !.next = TRUE, !.ctxUid = tokenString.tok.uid]

\* Mutant: the middleware keeps session state in the store: a token whose
\* subject has no users row is refused.
AuthMiddlewareChecksUser(hdr, t) ==
    LET tokenString == StripBearer(hdr)
        err == ParseErr(tokenString, "test-secret", t)
        out == [NoMw EXCEPT !.hdr = hdr, !.at = t, !.status = 401]
    IN  IF hdr.bearer = 0 /\ ~hdr.hasTok
        THEN [out EXCEPT !.msg = "Authorization header is missing"]
        ELSE IF err # ""
        THEN [out EXCEPT !.msg = "Failed to parse JWT token: " \o err]
        ELSE IF tokenString.tok.uidKind # "num"
        THEN [out EXCEPT !.msg = "UID not found in JWT token claims"]
        ELSE IF \A u \in users : u.id # tokenString.tok.uid
        THEN [out EXCEPT !.msg = "user not found"]
        ELSE [out EXCEPT !.status = 200, !.next = TRUE, !.ctxUid = tokenString.tok.uid]

\* AuthMiddleware: the handler the middleware wraps around next.
AuthMiddleware(hdr, t) ==
    LET tokenString == StripBearer(hdr)
        err == ParseErr(tokenString, "test-secret", t)
        out == [NoMw EXCEPT !.hdr = hdr, !.at = t, !.status = 401]
    IN  IF hdr.bearer = 0 /\ ~hdr.hasTok
        THEN [out EXCEPT !.msg = "Authorization header is missing"]
        ELSE IF err # ""
        THEN [out EXCEPT !.msg = "Failed to parse JWT token: " \o err]
        ELSE IF tokenString.tok.uidKind # "num"
        THEN [out EXCEPT !.msg = "UID not found in JWT token claims"]
        ELSE [out EXCEPT !.status = 200, !.next = TRUE, !.ctxUid = tokenString.tok.uid]

\* The Token Issuer signs a token for a subject of a tenant.
IssueToken(uid, phone, app) ==
    /\ issued' = [tok |-> NewToken(uid, phone, app, TokenTTL, now), given |-> TRUE,
                  uid |-> uid, phone |-> phone, secret |-> app.secret, at |-> now]
    /\ UNCHANGED <<store, procs, crashed, registered, assigned, deleted, feed, now, mw>>

\* Headers a client may send besides its issued token as a bearer credential.
ForgedHeaders ==
    { [bearer |-> b, hasTok |-> FALSE, tok |-> NoTok] : b \in 0 .. 2 } \cup
    { [bearer |-> b, hasTok |-> TRUE, tok |-> t] : b \in 0 .. 2, t \in ForgedTokens }

\* A request with an arbitrary Authorization header reaches a protected route.
ServeForged(hdr) ==
    /\ mw' = AuthMiddleware(hdr, now)
    /\ UNCHANGED <<store, procs, crashed, registered, assigned, deleted, feed, now, issued>>

\* The client presents the token it was issued as a bearer credential.
ServeIssued ==
    /\ issued.given
    /\ mw' = [AuthMiddleware([bearer |-> 1, hasTok |-> TRUE, tok |-> issued.tok], now)
                 EXCEPT !.fromIssuer = TRUE, !.grant = issued]
    /\ UNCHANGED <<store, procs, crashed, registered, assigned, deleted, feed, now, issued>>

Tick ==
    /\ now < MaxTime
    /\ now' = now + 1
    /\ UNCHANGED <<store, procs, crashed, registered, assigned, deleted, feed, issued, mw>>

\* ------------------------------------------- protected routes of the REST app
\* authRouter: AuthMiddleware runs on the request's bearer token and, if it
\* lets the request through, the route's handler runs with the uid of the
\* token in the request context.  Each handler takes userId (and the item id)
\* from the query string of the URL and calls its provider with them; the uid
\* in the context is not read.  The routes are DELETE /user, GET /user and
\* PATCH /authors; PATCH /articles and PATCH /poets differ from the last in
\* the table only.
AuthRouter(p, route, userID, itemID) ==
    LET out == AuthMiddleware([bearer |-> 1, hasTok |-> TRUE, tok |-> issued.tok], now)
        rq  == [NoReq EXCEPT !.op = route, !.userID = userID, !.itemID = itemID,
                             !.authed = out.next, !.ctxUid = out.ctxUid]
    IN  /\ ~crashed
        /\ pc[p] = "idle"
        /\ issued.given
        /\ mw' = [out EXCEPT !.fromIssuer = TRUE, !.grant = issued]
        /\ req' = [req EXCEPT ![p] = rq]
        /\ IF ~out.next
           THEN /\ resp' = [resp EXCEPT ![p] = [NoResp EXCEPT !.code = "Unauthorized",
                                                              !.msg = out.msg, !.err = out.msg]]
                /\ loc' = [loc EXCEPT ![p] = NoLoc]
                /\ pc' = [pc EXCEPT ![p] = "done"]
           ELSE IF route = "DeleteUser"
           THEN /\ resp' = [resp EXCEPT ![p] = NoResp]
                /\ loc' = [loc EXCEPT ![p] = NoLoc]
                /\ pc' = [pc EXCEPT ![p] = "delUser"]
           ELSE IF route = "GetUser"
           THEN /\ resp' = [resp EXCEPT ![p] =
                              IF \E u \in users : u.id = userID
                              THEN Reply(NoErr, userID) ELSE Reply(ErrUserNotFound, 0)]
                /\ loc' = [loc EXCEPT ![p] = NoLoc]
                /\ pc' = [pc EXCEPT ![p] = "done"]
           ELSE IF RowsOf(authors, userID, itemID) = {}
           THEN /\ resp' = [resp EXCEPT ![p] = Reply("author not found", 0)]
                /\ loc' = [loc EXCEPT ![p] = NoLoc]
                /\ pc' = [pc EXCEPT ![p] = "done"]
           ELSE /\ \E r \in RowsOf(authors, userID, itemID) :
                      loc' = [loc EXCEPT ![p] = [NoLoc EXCEPT !.currentIsFave = r.isFave]]
                /\ resp' = [resp EXCEPT ![p] = NoResp]
                /\ pc' = [pc EXCEPT ![p] = "updAuthor"]
        /\ UNCHANGED <<store, crashed, registered, assigned, deleted, feed, now, issued>>

\* DELETE /user?userId=
DeleteUserHandler(p, userID) == AuthRouter(p, "DeleteUser", userID, 0)

\* GET /user?userId=
GetUserHandler(p, userID) == AuthRouter(p, "GetUser", userID, 0)

\* PATCH /authors?userId=&authorId=
UpdateAuthorIsFaveHandler(p, userID, authorID) ==
    AuthRouter(p, "UpdateAuthorIsFave", userID, authorID)

\* ---------------------------------------------------- the feed-JSON revision
\* In this revision of the storage a user's favourites are three JSON objects
\* in one row of table feed.  A JSON object is modelled by the sequence of its
\* "key":"value" members, in the order json.Marshal writes them (sorted keys).
Member(k, v) == [k |-> k, v |-> v]

\* json.Marshal of the maps SaveUser builds: every item with value "false".
FeedAuthors == << Member(1001, "false"), Member(1002, "false"),
                  Member(1003, "false"), Member(1004, "false") >>
FeedArticles == << Member(2001, "false"), Member(2002, "false") >>
FeedPoets == << Member(3001, "false"), Member(3002, "false") >>

\* The values of the isFave query parameter a client sends.
IsFaveStrings == {"true", "false", "1", "x"}

\* strconv.ParseBool: the value and whether an error is returned; on an
\* error the value is false.
ParseBool(str) ==
    IF str \in {"1", "t", "T", "TRUE", "true", "True"} THEN [val |-> TRUE, err |-> FALSE]
    ELSE IF str \in {"0", "f", "F", "FALSE", "false", "False"} THEN [val |-> FALSE, err |-> FALSE]
    ELSE [val |-> FALSE, err |-> TRUE]

\* strconv.FormatBool
FormatBool(b) == IF b THEN "true" ELSE "false"

\* strings.Replace(json, old, new, 1) for a member `old` and a member `new`:
\* the first occurrence of old, if there is one, becomes new.
ReplaceFirst(json, old, new) ==
    LET hits == {i \in 1 .. Len(json) : json[i] = old}
    IN  IF hits = {} THEN json
        ELSE [i \in 1 .. Len(json) |-> IF i = Min(hits) THEN new ELSE json[i]]

\* The JSON text Update*IsFave writes back: the error of ParseBool is not
\* looked at, the member searched for carries the negation of the parsed
\* value, and the member written carries the string isFave as it came.
UpdatedJSON(json, itemID, isFave) ==
    LET strBool == ParseBool(isFave).val
        old     == ~strBool
    IN  ReplaceFirst(json, Member(itemID, FormatBool(old)), Member(itemID, isFave))

\* Storage.SaveUser of the feed revision, called by one client at a time:
\* INSERT INTO users, then INSERT INTO feed with the three marshalled maps.
FeedSaveUser(p, phone) ==
    /\ ~crashed
    /\ pc[p] = "idle"
    /\ req' = [req EXCEPT ![p] = [NoReq EXCEPT !.op = "SaveUser", !.phone = phone]]
    /\ loc' = [loc EXCEPT ![p] = NoLoc]
    /\ pc' = [pc EXCEPT ![p] = "done"]
    /\ IF UniqueViolation(users, phone)
       THEN /\ resp' = [resp EXCEPT ![p] = Reply(ErrUserExists, 0)]
            /\ UNCHANGED <<users, feed, assigned>>
       ELSE /\ LastInsertId(users) <= MaxId
            /\ users' = users \cup { [id |-> LastInsertId(users), phone |-> phone,
                                      pass_hash |-> GenerateFromPassword("a", "s1"),
                                      name |-> "", image |-> ""] }
            /\ feed' = [id \in DOMAIN feed \cup {LastInsertId(users)} |->
                          IF id \in DOMAIN feed THEN feed[id]
                          ELSE [authors |-> FeedAuthors, articles |-> FeedArticles,
                                poets |-> FeedPoets]]
            /\ assigned' = assigned \cup {LastInsertId(users)}
            /\ resp' = [resp EXCEPT ![p] = Reply(NoErr, LastInsertId(users))]
    /\ UNCHANGED <<authors, articles, poets, apps, crashed, registered, deleted, authz>>

\* Storage.Update<column>IsFave of the feed revision, called by one client at
\* a time: SELECT <column> FROM feed WHERE id = ?, the replacement in the JSON
\* text, UPDATE feed SET <column> = ? WHERE id = ?.
FeedUpdateIsFave(p, op, column, userID, itemID, isFave) ==
    /\ ~crashed
    /\ pc[p] = "idle"
    /\ req' = [req EXCEPT ![p] = [NoReq EXCEPT !.op = op, !.userID = userID,
                                               !.itemID = itemID, !.isFave = isFave]]
    /\ loc' = [loc EXCEPT ![p] = NoLoc]
    /\ pc' = [pc EXCEPT ![p] = "done"]
    /\ IF userID \notin DOMAIN feed
       THEN /\ resp' = [resp EXCEPT ![p] = Reply("sql: no rows in result set", 0)]
            /\ UNCHANGED feed
       ELSE /\ feed' = [feed EXCEPT ![userID][column] = UpdatedJSON(@, itemID, isFave)]
            /\ resp' = [resp EXCEPT ![p] = Reply(NoErr, 0)]
    /\ UNCHANGED <<store, crashed, registered, assigned, deleted, authz>>

FeedUpdateAuthorIsFave(p, userID, authorID, isFave) ==
    FeedUpdateIsFave(p, "FeedUpdateAuthorIsFave", "authors", userID, authorID, isFave)

FeedUpdateArticleIsFave(p, userID, articleID, isFave) ==
    FeedUpdateIsFave(p, "FeedUpdateArticleIsFave", "articles", userID, articleID, isFave)

FeedUpdatePoetIsFave(p, userID, poetID, isFave) ==
    FeedUpdateIsFave(p, "FeedUpdatePoetIsFave", "poets", userID, poetID, isFave)

\* ------------------------------------------------------- the specification
InitProcs ==
    /\ pc = [p \in Procs |-> "idle"]
    /\ req = [p \in Procs |-> NoReq]
    /\ loc = [p \in Procs |-> NoLoc]
    /\ resp = [p \in Procs |-> NoResp]
    /\ crashed = FALSE
    /\ registered = << >>
    /\ assigned = {}
    /\ deleted = {}
    /\ feed = << >>
    /\ now = 0
    /\ issued = NoIssued
    /\ mw = NoMw

InitStore ==
    /\ users = {}
    /\ authors = SeedRows(1001)
    /\ articles = SeedRows(2001)
    /\ poets = SeedRows(3001)

\* The deployment's tenants are provisioned out of band: any subset of AppRows.
Init ==
    /\ InitStore
    /\ apps \in SUBSET AppRows
    /\ InitProcs

\* A deployment with both tenants provisioned.
InitSeeded ==
    /\ InitStore
    /\ apps = AppRows
    /\ InitProcs

Steps(p) ==
    \/ SaveUserInsert(p)
    \/ SaveUserSelectAuthors(p)
    \/ SaveUserSelectPoets(p)
    \/ SaveUserSelectArticles(p)
    \/ SaveUserInsertAuthor(p)
    \/ SaveUserInsertPoet(p)
    \/ SaveUserInsertArticle(p)

Next ==
    \E p \in Clients :
        \/ \E phone \in Phones, password \in Passwords : Register(p, phone, password)
        \/ Steps(p)
        \/ \E userID \in 1 .. MaxId : DeleteUser(p, userID)
        \/ DeleteUserRow(p)
        \/ DeleteUserAuthors(p)
        \/ DeleteUserArticles(p)
        \/ DeleteUserPoets(p)
        \/ \E phone \in Phones, password \in Passwords, appID \in AppIDs :
              Login(p, phone, password, appID)
        \/ \E appID \in AppIDs : App(p, appID)
        \/ \E userID \in 1 .. MaxId : IsAdmin(p, userID)
        \/ Return(p)

Spec == Init /\ [][Next]_vars


\* Tokens and the authorization middleware, on their own.
NextMw ==
    \/ Tick
    \/ \E uid \in 1 .. MaxId, phone \in Phones \ {""}, app \in AppRows :
          IssueToken(uid, phone, app)
    \/ ServeIssued
    \/ \E hdr \in ForgedHeaders : ServeForged(hdr)
    \/ \E p \in Clients, srvErr \in ListenErrs : MustRun(p, srvErr)

SpecMw == InitSeeded /\ [][NextMw]_vars

\* Concurrent registrations: every process makes one Register call.
NextReg ==
    \E p \in Procs :
        \/ \E phone \in Phones, password \in Passwords : Register(p, phone, password)
        \/ Steps(p)

SpecReg == InitSeeded /\ [][NextReg]_vars


\* The credential store under every operation that touches it: the Auth
\* operations, account deletion, favourite updates and content reads.
NextStore ==
    \/ Next
    \/ \E p \in Clients :
          \/ \E userID \in 1 .. MaxId : UpdateAuthorIsFave(p, userID, 1001)
          \/ UpdateAuthorIsFaveExec(p)
          \/ \E userID \in 1 .. MaxId : GetUser(p, userID)

SpecStore == Init /\ [][NextStore]_vars


\* Sessions: one token is issued to a registered identity and presented to
\* the middleware while registrations, logins and deletions go on.
NextSess ==
    \/ \E p \in Clients :
          \/ \E phone \in Phones \ {""} : Register(p, phone, "a")
          \/ Steps(p)
          \/ \E userID \in 1 .. MaxId : DeleteUser(p, userID)
          \/ DeleteUserRow(p)
          \/ DeleteUserAuthors(p)
          \/ DeleteUserArticles(p)
          \/ DeleteUserPoets(p)
          \/ \E phone \in Phones \ {""} : Login(p, phone, "a", 1)
          \/ Return(p)
    \/ \E phone \in DOMAIN registered, app \in AppRows :
          ~issued.given /\ IssueToken(registered[phone], phone, app)
    \/ ServeIssued
    \/ Tick

SpecSess == InitSeeded /\ [][NextSess]_vars


\* Registration under cancellation: the context of a Register call may be
\* cancelled before any statement of SaveUser.
NextFault ==
    \E p \in Clients :
        \/ \E phone \in Phones, password \in Passwords : Register(p, phone, password)
        \/ Steps(p)
        \/ SaveUserCanceled(p)
        \/ Return(p)

SpecFault == Init /\ [][NextFault]_vars


\* Logins while the operator rotates tenant secrets.
NextRot ==
    \/ \E p \in Clients :
          \/ \E phone \in Phones \ {""} : Register(p, phone, "a")
          \/ Steps(p)
          \/ \E phone \in Phones \ {""}, appID \in AppIDs \ {0} : Login(p, phone, "a", appID)
          \/ Return(p)
    \/ \E a \in AppRows, secret \in NewSecrets : RotateSecret(a.id, secret)

SpecRot == InitSeeded /\ [][NextRot]_vars


\* The Password Hasher on its own, next to the registrations that store its
\* output.
NextHash ==
    \E p \in Clients :
        \/ \E password \in Plaintexts : HashPassword(p, password)
        \/ \E candidate \in Plaintexts : VerifyPassword(p, candidate)
        \/ \E hash \in CorruptHashes, candidate \in Plaintexts : VerifyCorrupt(p, hash, candidate)
        \/ \E phone \in Phones, password \in Passwords : Register(p, phone, password)
        \/ Steps(p)
        \/ Return(p)

SpecHash == InitSeeded /\ [][NextHash]_vars


\* The protected routes of the REST application, called by the holder of one
\* issued token, next to the registrations that create the accounts.
NextRest ==
    \/ \E p \in Clients :
          \/ \E phone \in Phones \ {""} : Register(p, phone, "a")
          \/ Steps(p)
          \/ \E userID \in 1 .. MaxId : DeleteUserHandler(p, userID)
          \/ \E userID \in 1 .. MaxId : GetUserHandler(p, userID)
          \/ \E userID \in 1 .. MaxId : UpdateAuthorIsFaveHandler(p, userID, 1001)
          \/ DeleteUserRow(p)
          \/ DeleteUserAuthors(p)
          \/ DeleteUserArticles(p)
          \/ DeleteUserPoets(p)
          \/ UpdateAuthorIsFaveExec(p)
          \/ Return(p)
    \/ \E phone \in DOMAIN registered, app \in AppRows :
          ~issued.given /\ IssueToken(registered[phone], phone, app)
    \/ Tick

SpecRest == InitSeeded /\ [][NextRest]_vars


\* DeleteUser with statements that may fail, after the registrations that
\* create the rows it deletes (no identity registers once one was deleted, so
\* that the rows a failed DELETE leaves behind are not multiplied without end).
NextDel ==
    \E p \in Clients :
        \/ \E phone \in Phones \ {""} : deleted = {} /\ Register(p, phone, "a")
        \/ Steps(p)
        \/ \E userID \in 1 .. MaxId : DeleteUser(p, userID)
        \/ DeleteUserRow(p)
        \/ DeleteUserAuthors(p)
        \/ DeleteUserArticles(p)
        \/ DeleteUserPoets(p)
        \/ DeleteUserExecFails(p)
        \/ DeleteUserPoetsFails(p)
        \/ Return(p)

SpecDel == InitSeeded /\ [][NextDel]_vars


\* The three toggles called one after the other by one client, next to the
\* registrations and deletions that make and remove the rows they address.
NextFave ==
    \E p \in Clients :
        \/ \E phone \in Phones \ {""} : Register(p, phone, "a")
        \/ Steps(p)
        \/ \E userID \in 1 .. MaxId : DeleteUser(p, userID)
        \/ DeleteUserRow(p)
        \/ DeleteUserAuthors(p)
        \/ DeleteUserArticles(p)
        \/ DeleteUserPoets(p)
        \/ \E userID \in 1 .. MaxId : UpdateAuthorIsFave(p, userID, 1001)
        \/ UpdateAuthorIsFaveExec(p)
        \/ \E userID \in 1 .. MaxId : UpdateArticleIsFave(p, userID, 2001)
        \/ UpdateArticleIsFaveExec(p)
        \/ \E userID \in 1 .. MaxId : UpdatePoetIsFave(p, userID, 3001)
        \/ UpdatePoetIsFaveExec(p)
        \/ Return(p)

SpecFave == InitSeeded /\ [][NextFave]_vars


\* Toggles of the author flag called concurrently, one call per process, once
\* a client has registered the accounts whose rows they address.
NextConc ==
    \/ \E p \in Clients :
          \/ \E phone \in Phones \ {""} : Register(p, phone, "a")
          \/ Steps(p)
          \/ req[p].op = "Register" /\ Return(p)
    \/ \E p \in Procs :
          \/ \E userID \in 1 .. MaxId : UpdateAuthorIsFave(p, userID, 1001)
          \/ UpdateAuthorIsFaveExec(p)

SpecConc == InitSeeded /\ [][NextConc]_vars


\* The feed-JSON revision of the storage, called by one client.
NextFeed ==
    \E p \in Clients :
        \/ \E phone \in Phones \ {""} : FeedSaveUser(p, phone)
        \/ \E userID \in 1 .. MaxId, isFave \in IsFaveStrings :
              \/ FeedUpdateAuthorIsFave(p, userID, 1001, isFave)
              \/ FeedUpdateArticleIsFave(p, userID, 2001, isFave)
              \/ FeedUpdatePoetIsFave(p, userID, 3001, isFave)
        \/ Return(p)

SpecFeed == InitSeeded /\ [][NextFeed]_vars


\* ================================================================= claims

Done(p, op) == pc[p] = "done" /\ req[p].op = op

\* The stored credential of `phone` matches `password`.
Matches(phone, password) ==
    \E u \in users : u.phone = phone /\ CompareHashAndPassword(u.pass_hash, password)

\* C1: a Register of an identity whose earlier Register succeeded and that was
\* not deleted since fails with "user already exists", returns the zero id,
\* and leaves exactly one credential for that identity in the store.
C1_DuplicateRegisterFails ==
    \A p \in Procs :
        (Done(p, "Register") /\ loc[p].dup) =>
            /\ resp[p].err = ErrUserExists
            /\ resp[p].msg = "user already exists"
            /\ resp[p].id = 0
            /\ Cardinality({u \in users : u.phone = req[p].phone}) = 1

\* C1 witness: a second Register, with another password, has been refused.
C1_Witness ==
    \E p \in Procs :
        /\ Done(p, "Register") /\ loc[p].dup
        /\ resp[p].err = ErrUserExists
        /\ ~Matches(req[p].phone, req[p].password)

\* The processes whose Register call for `phone` passed input validation.
Registers(phone) ==
    {p \in Procs : req[p].op = "Register" /\ req[p].phone = phone /\ req[p].password # ""}

Succeeded(p) == pc[p] = "done" /\ resp[p].err = NoErr /\ resp[p].id # 0

\* C2: once all concurrent Register calls have returned, every identity that
\* was registered has exactly one successful call, all its other calls failed
\* with "user already exists", and successful calls returned distinct ids.
C2_ConcurrentRegister ==
    (\A p \in Procs : pc[p] = "done") =>
        /\ \A phone \in Phones \ {""} :
              Registers(phone) # {} =>
                 /\ Cardinality({p \in Registers(phone) : Succeeded(p)}) = 1
                 /\ \A p \in Registers(phone) :
                       Succeeded(p) \/ (resp[p].err = ErrUserExists /\ resp[p].id = 0)
        /\ \A p, q \in Procs :
              (p # q /\ req[p].op = "Register" /\ req[q].op = "Register"
                 /\ Succeeded(p) /\ Succeeded(q)) => resp[p].id # resp[q].id

\* C2 witness: two concurrent calls for one identity returned, one refused,
\* the other successful.
C2_Witness ==
    /\ \A p \in Procs : pc[p] = "done"
    /\ \E p, q \in Procs :
          /\ p # q /\ req[p].phone = req[q].phone
          /\ p \in Registers(req[p].phone) /\ q \in Registers(req[p].phone)
          /\ Succeeded(p) /\ resp[q].err = ErrUserExists

\* C3 (as claimed): a Login with the registered identity, its password and a
\* provisioned tenant returns a token whose uid is the id Register returned
\* and whose phone is the identity.
C3_LoginReturnsToken ==
    \A p \in Procs :
        (/\ Done(p, "Login")
         /\ req[p].phone \in DOMAIN registered
         /\ Matches(req[p].phone, req[p].password)
         /\ \E a \in apps : a.id = req[p].appID) =>
            /\ resp[p].err = NoErr
            /\ resp[p].token # <<>>
            /\ resp[p].token.uid = registered[req[p].phone]
            /\ resp[p].token.phone = req[p].phone

\* C4 (as claimed): a Login with valid input whose identity is unknown or
\* whose password does not match fails with "invalid phone or password".
C4_InvalidCredentials ==
    \A p \in Procs :
        (/\ Done(p, "Login")
         /\ ValidateLogin(req[p].phone, req[p].password, req[p].appID) = ""
         /\ ~Matches(req[p].phone, req[p].password)) =>
            /\ resp[p].code = "InvalidCredentials"
            /\ resp[p].msg = "invalid phone or password"

\* C5: a Register with an empty identity or an empty password returns a
\* validation error without reaching the store, no credential with an empty
\* identity or an empty password is ever stored, and a Login with an empty
\* identity or password fails.
C5_EmptyInputRejected ==
    /\ \A u \in users : u.phone # "" /\ ~CompareHashAndPassword(u.pass_hash, "")
    /\ \A p \in Procs :
          (req[p].op = "Register" /\ (req[p].phone = "" \/ req[p].password = "")) =>
             /\ pc[p] = "done"
             /\ resp[p].code = "InvalidArgument"
             /\ resp[p].id = 0
    /\ \A p \in Procs :
          (Done(p, "Login") /\ (req[p].phone = "" \/ req[p].password = "")) =>
             /\ resp[p].code = "InvalidArgument"
             /\ resp[p].token = <<>>

\* C5 witness: a Register with an identity and no password has been refused.
C5_Witness ==
    \E p \in Procs :
        /\ Done(p, "Register") /\ req[p].phone # "" /\ req[p].password = ""
        /\ resp[p].code = "InvalidArgument"

\* C6: with both the identity and the password empty, Register and Login fail
\* with "phone is required".
C6_IdentityCheckedFirst ==
    \A p \in Procs :
        (/\ pc[p] = "done" /\ req[p].op \in {"Register", "Login"}
         /\ req[p].phone = "" /\ req[p].password = "") =>
            /\ resp[p].code = "InvalidArgument"
            /\ resp[p].msg = "phone is required"

\* C6 witness: a Login with both inputs empty has returned.
C6_Witness ==
    \E p \in Procs :
        Done(p, "Login") /\ req[p].phone = "" /\ req[p].password = "" /\ resp[p].msg # ""

\* C7: a Login with an identity, a password and the zero tenant id fails with
\* "app_id is required" before Auth.Login is entered, registered or not.
C7_TenantRequired ==
    \A p \in Procs :
        (/\ Done(p, "Login") /\ req[p].phone # "" /\ req[p].password # ""
         /\ req[p].appID = 0) =>
            /\ resp[p].code = "InvalidArgument"
            /\ resp[p].msg = "app_id is required"
            /\ ~crashed

\* C7 witness: a registered identity logged in with its password and tenant 0.
C7_Witness ==
    \E p \in Procs :
        /\ Done(p, "Login") /\ req[p].appID = 0
        /\ req[p].phone \in DOMAIN registered
        /\ Matches(req[p].phone, req[p].password)
        /\ resp[p].msg = "app_id is required"

\* C8: an issued token presented to the validator is accepted, with the
\* subject id and identity it was issued for, when it was signed with the
\* validator's secret and the time is before its exp; it is rejected when it
\* was signed with another secret, and rejected at or after its exp.
C8_TokenRoundTrip ==
    mw.fromIssuer =>
        LET g == mw.grant
            claims == StripBearer(mw.hdr).tok
        IN  /\ (g.secret = "test-secret" /\ mw.at < g.at + TokenTTL) =>
                  /\ mw.status = 200 /\ mw.next
                  /\ mw.ctxUid = g.uid
                  /\ claims.uid = g.uid /\ claims.phone = g.phone
            /\ g.secret # "test-secret" => (mw.status = 401 /\ ~mw.next)
            /\ mw.at >= g.at + TokenTTL => (mw.status = 401 /\ ~mw.next)

\* C8 witness: an issued token was presented at its expiration instant.
C8_Witness ==
    /\ mw.fromIssuer /\ mw.grant.secret = "test-secret"
    /\ mw.at = mw.grant.at + TokenTTL
    /\ mw.status = 401

\* C9: the next handler runs only for a request whose header carries a
\* well-formed token signed with the secret, not expired, with a numeric uid,
\* and then the context uid is that claim; every other request gets 401.
C9_MiddlewareGuards ==
    LET h == mw.hdr
        t == h.tok
        good == /\ h.hasTok /\ h.bearer <= 1 /\ ~t.malformed
                /\ t.sig = "test-secret"
                /\ (t.hasExp => mw.at < t.exp)
                /\ t.uidKind = "num"
    IN  mw.status # 0 =>
            /\ mw.next => (good /\ mw.status = 200 /\ mw.ctxUid = t.uid)
            /\ ~good => (mw.status = 401 /\ ~mw.next)

\* C9 witness: a request with an expired, correctly signed token got 401.
C9_Witness ==
    /\ mw.status = 401 /\ ~mw.next /\ mw.hdr.hasTok /\ mw.hdr.bearer = 1
    /\ mw.hdr.tok.sig = "test-secret" /\ mw.hdr.tok.hasExp /\ mw.at >= mw.hdr.tok.exp
    /\ mw.hdr.tok.uidKind = "num"

\* C10 (as claimed): resolving the secret of a tenant id returns the secret
\* registered for that id, and "app not found" when the id is not registered.
C10_SecretForTenant ==
    \A p \in Procs :
        Done(p, "App") =>
            IF \E a \in apps : a.id = req[p].appID
            THEN /\ resp[p].err = NoErr
                 /\ \E a \in apps : a.id = req[p].appID /\ a.secret = resp[p].secret
            ELSE resp[p].err = ErrAppNotFound

\* C11 (as claimed): a well-formed, unexpired token with a numeric uid passes
\* the middleware exactly when it was signed with the secret registered for
\* the tenant named in its app_id claim; with two tenants holding different
\* secrets a token signed with the other tenant's secret is rejected.
C11_TenantScopedValidation ==
    LET h == mw.hdr
        t == h.tok
    IN  (/\ mw.status # 0 /\ h.hasTok /\ h.bearer <= 1 /\ ~t.malformed
         /\ t.uidKind = "num" /\ (t.hasExp => mw.at < t.exp)) =>
            (mw.next <=> \E a \in apps : a.id = t.app_id /\ a.secret = t.sig)

\* C12 (as claimed): a Login at instant t of a registered identity with its
\* password and a provisioned tenant returns a token whose exp is within one
\* second of t + TokenTTL.
C12_ExpIsIssuancePlusTTL ==
    \A p \in Procs :
        (/\ Done(p, "Login")
         /\ req[p].phone \in DOMAIN registered
         /\ Matches(req[p].phone, req[p].password)
         /\ \E a \in apps : a.id = req[p].appID) =>
            /\ resp[p].token # <<>>
            /\ resp[p].token.exp - (now + TokenTTL) \in -1 .. 1

\* C13 (as claimed): in every step of Register and DeleteUser operations no
\* two stored identities share a phone, the id of a stored identity does not
\* change, and an id that was assigned before is not assigned to a new row,
\* also after the identity that held it was deleted.
C13_IdsUniqueImmutableNeverReused ==
    [][ /\ \A u, v \in users' : u.phone = v.phone => u = v
        /\ \A u \in users, v \in users' : u.phone = v.phone => u.id = v.id
        /\ \A v \in users' \ users : v.id \notin assigned ]_vars

\* C14: no step changes the password hash of a stored identity; a credential
\* leaves the store only in the DELETE FROM users of a DeleteUser call for
\* that identity's id.
C14_CredentialNeverMutated ==
    [][ \A u \in users :
           \/ \E v \in users' : v.id = u.id /\ v.phone = u.phone /\ v.pass_hash = u.pass_hash
           \/ /\ \A v \in users' : v.phone # u.phone
              /\ \E p \in Procs : /\ req[p].op = "DeleteUser" /\ req[p].userID = u.id
                                  /\ pc[p] = "delUser" /\ pc'[p] = "delAuthors" ]_vars

\* C14 witness: a favourite update for a registered identity has completed
\* and the identity still holds a credential.
C14_Witness ==
    \E p \in Procs :
        /\ Done(p, "UpdateAuthorIsFave") /\ resp[p].err = NoErr
        /\ \E u \in users : u.id = req[p].userID /\ u.phone \in DOMAIN registered
                            /\ registered[u.phone] = u.id

\* C15: whether an issued token passes the middleware is decided by the
\* token's signature, the validation secret and the time alone, whatever
\* Register, Login and DeleteUser operations ran since it was issued, the
\* deletion of its own subject included.
C15_StatelessValidation ==
    mw.fromIssuer =>
        (mw.next <=> (mw.grant.tok.sig = "test-secret" /\ mw.at < mw.grant.tok.exp))

\* C15 witness: a token was accepted after its subject's row was deleted.
C15_Witness ==
    /\ mw.fromIssuer /\ mw.next /\ mw.status = 200
    /\ \A u \in users : u.id # mw.grant.uid
    /\ mw.grant.phone \notin DOMAIN registered

\* C16 (as claimed): a request whose token fails validation gets the same
\* response whichever way it failed: any other token that fails validation at
\* the same instant (bad signature, malformed, expired) gets the same status
\* and the same body.
C16_FailuresIndistinguishable ==
    (/\ mw.status # 0 /\ mw.hdr.hasTok
     /\ ParseErr(StripBearer(mw.hdr), "test-secret", mw.at) # "") =>
        \A hdr \in ForgedHeaders :
            (hdr.hasTok /\ ParseErr(StripBearer(hdr), "test-secret", mw.at) # "") =>
                /\ AuthMiddleware(hdr, mw.at).status = mw.status
                /\ AuthMiddleware(hdr, mw.at).msg = mw.msg

\* The per-user rows of `uid` cover every item the table lists.
Covers(table, uid) ==
    {r.itemId : r \in BagToSet(table)} \subseteq
        {r.itemId : r \in {x \in BagToSet(table) : x.userId = uid}}

Complete(uid) == Covers(authors, uid) /\ Covers(poets, uid) /\ Covers(articles, uid)

\* C17 (as claimed): after a Register call returned an error, every users row
\* of that identity has all its per-user rows, and an identity that never
\* registered successfully has no credential to log in with.
C17_NoPartialWrites ==
    \A p \in Procs :
        (Done(p, "Register") /\ resp[p].err # NoErr) =>
            /\ \A u \in users : u.phone = req[p].phone => Complete(u.id)
            /\ req[p].phone \notin DOMAIN registered =>
                  \A u \in users : u.phone # req[p].phone

\* C18: a Register call that passed validation is at its INSERT until it has
\* made one attempt, makes no second attempt whatever the first one returned,
\* and has made exactly one when it returns; a refused input makes none.
C18_SingleInsertAttempt ==
    \A p \in Procs :
        req[p].op = "Register" =>
            /\ loc[p].inserts <= 1
            /\ (pc[p] # "done" /\ loc[p].inserts = 0) => pc[p] = "insUser"
            /\ pc[p] = "done" =>
                  loc[p].inserts =
                     IF ValidateRegister(req[p].phone, req[p].password) = "" THEN 1 ELSE 0

\* C18 witness: the INSERT failed with an error other than the uniqueness
\* violation and the call returned after that single attempt.
C18_Witness ==
    \E p \in Procs :
        /\ Done(p, "Register") /\ resp[p].err = ErrCanceled
        /\ loc[p].inserts = 1 /\ loc[p].id = 0

\* C19 (as claimed): a Login of a registered identity with its password, for
\* a tenant whose secret was rotated since provisioning, returns a token
\* signed with the tenant's current secret and not with the one it replaced.
C19_SecretResolvedFresh ==
    \A p \in Procs :
        (/\ Done(p, "Login")
         /\ req[p].phone \in DOMAIN registered
         /\ Matches(req[p].phone, req[p].password)
         /\ \E a \in apps \ AppRows : a.id = req[p].appID) =>
            /\ resp[p].token # <<>>
            /\ \E a \in apps : a.id = req[p].appID /\ resp[p].token.sig = a.secret
            /\ \A a \in AppRows : a.id = req[p].appID => resp[p].token.sig # a.secret

\* C20 (as claimed): IsAdmin of an existing subject returns its privilege
\* flag without error, IsAdmin of an id no subject has fails with NotFound,
\* and the server and its store are as before in both cases.
C20_IsAdminLooksUpFlag ==
    \A p \in Procs :
        Done(p, "IsAdmin") =>
            /\ IF \E u \in users : u.id = req[p].userID
               THEN resp[p].err = NoErr /\ resp[p].code = "OK"
               ELSE resp[p].code = "NotFound"
            /\ ~crashed

C22_MustRunPanicsOnError ==
    \A p \in Procs :
        (Done(p, "MustRun") /\ req[p].srvErr # "nil") =>
            resp[p].err # NoErr /\ resp[p].code = "Panic"

\* The rows of a per-user table whose number of copies differs between two
\* values of the table.
Touched(t1, t2) ==
    {r \in BagToSet(t1) \cup BagToSet(t2) : CopiesIn(r, t1) # CopiesIn(r, t2)}

\* C23 (as claimed): a statement run for a request that passed AuthMiddleware
\* with a token for subject u removes only the users row of u and adds,
\* removes or changes only favourites rows of u.
C23_TokenSubjectOnly ==
    [][\A p \in Clients :
          (req[p].authed /\ pc[p] # "idle" /\ pc'[p] # pc[p]) =>
              /\ \A u \in users \ users' : u.id = req[p].ctxUid
              /\ \A r \in Touched(authors, authors') \cup Touched(articles, articles')
                          \cup Touched(poets, poets') : r.userId = req[p].ctxUid]_vars

\* The item ids of the catalogue tables author, article and poet, from which
\* the favourites rows of a new user are meant to be made.
CatalogueAuthors == {1001}
CatalogueArticles == {2001}
CataloguePoets == {3001}

\* User `uid` owns exactly one row of `table` per item of `catalogue`, with
\* isFave = 0, and the table holds no row twice.
OneRowEach(table, catalogue, uid) ==
    /\ \A item \in catalogue :
          CopiesIn([userId |-> uid, itemId |-> item, isFave |-> 0], table) = 1
    /\ \A r \in BagToSet(table) :
          /\ CopiesIn(r, table) = 1
          /\ r.userId = uid => r.itemId \in catalogue /\ r.isFave = 0

\* C24 (as claimed): after a successful SaveUser the new user owns exactly one
\* favourites row per catalogue author, article and poet, each with
\* isFave = 0, and no (userId, itemId) row exists twice.
C24_OneRowPerCatalogueItem ==
    \A p \in Procs :
        (Done(p, "Register") /\ resp[p].err = NoErr) =>
            /\ OneRowEach(authors, CatalogueAuthors, resp[p].id)
            /\ OneRowEach(articles, CatalogueArticles, resp[p].id)
            /\ OneRowEach(poets, CataloguePoets, resp[p].id)

\* No row of any of the four tables refers to user `uid`.
NoRowOf(uid) ==
    /\ \A u \in users : u.id # uid
    /\ \A r \in BagToSet(authors) \cup BagToSet(articles) \cup BagToSet(poets) : r.userId # uid

\* C25 (as claimed): when DeleteUser(u) has returned nil, no row referring to
\* u remains in users, authors, articles or poets.
C25_NilMeansAllDeleted ==
    \A p \in Procs :
        (Done(p, "DeleteUser") /\ resp[p].err = NoErr) => NoRowOf(req[p].userID)

\* C26 (as claimed): once DeleteUser removed a registered identity, a Login
\* with that identity and its former password fails with InvalidCredentials,
\* and a Register of that identity is refused as existing only if the
\* identity has a credential again.
C26_DeletedIdentityIsGone ==
    \A p \in Procs :
        /\ (/\ Done(p, "Login")
            /\ req[p].phone \in deleted
            /\ \A u \in users : u.phone # req[p].phone
            /\ ValidateLogin(req[p].phone, req[p].password, req[p].appID) = "") =>
               /\ resp[p].code = "InvalidCredentials"
               /\ ~crashed
        /\ (/\ Done(p, "Register")
            /\ req[p].phone \in deleted
            /\ resp[p].err = ErrUserExists) =>
               \E u \in users : u.phone = req[p].phone

\* The step from `t` to `t2` flips the flag of every row of (uid, item) from
\* `was` to 1 - was, keeps their number, and touches no other row.
Flipped(t, t2, uid, item, was) ==
    /\ \A r \in Touched(t, t2) : r.userId = uid /\ r.itemId = item
    /\ \A r \in RowsOf(t, uid, item) : r.isFave = was
    /\ \A r \in RowsOf(t2, uid, item) : r.isFave = 1 - was
    /\ RowsOf(t2, uid, item) # {}
    /\ CopiesIn([userId |-> uid, itemId |-> item, isFave |-> 1 - was], t2)
         = CopiesIn([userId |-> uid, itemId |-> item, isFave |-> was], t)

\* The table a toggle call makes of `t`: the flag it reads, then its UPDATE.
ToggleResults(t, uid, item) ==
    {SetIsFave(t, uid, item, 1 - r.isFave) : r \in RowsOf(t, uid, item)}

\* Toggling (uid, item) twice in sequence gives `t` back.
TwiceRestores(t, uid, item) ==
    \A t1 \in ToggleResults(t, uid, item) :
        \A t2 \in ToggleResults(t1, uid, item) : t2 = t

\* C27: called one after the other, each toggle flips the flag of the
\* addressed (userId, itemId) between 0 and 1 and leaves every other row of
\* every table as it was, and the same toggle applied twice in sequence
\* restores the table.
C27_ToggleFlipsAddressedRow ==
    /\ [][\A p \in Clients :
            /\ (pc[p] = "updAuthor" /\ pc'[p] = "done") =>
                  /\ Flipped(authors, authors', req[p].userID, req[p].itemID, loc[p].currentIsFave)
                  /\ UNCHANGED <<users, articles, poets, apps>>
            /\ (pc[p] = "updArticle" /\ pc'[p] = "done") =>
                  /\ Flipped(articles, articles', req[p].userID, req[p].itemID, loc[p].currentIsFave)
                  /\ UNCHANGED <<users, authors, poets, apps>>
            /\ (pc[p] = "updPoet" /\ pc'[p] = "done") =>
                  /\ Flipped(poets, poets', req[p].userID, req[p].itemID, loc[p].currentIsFave)
                  /\ UNCHANGED <<users, authors, articles, apps>>]_vars
    /\ [](\A uid \in 1 .. MaxId :
            /\ TwiceRestores(authors, uid, 1001)
            /\ TwiceRestores(articles, uid, 2001)
            /\ TwiceRestores(poets, uid, 3001))

\* C27 witness: a second toggle of user 2's author row, which has a duplicate
\* and a row of user 1 with the flag set next to it, put every copy back to 0.
C27_Witness ==
    \E p \in Procs :
        /\ Done(p, "UpdateAuthorIsFave") /\ resp[p].err = NoErr
        /\ req[p].userID = 2
        /\ loc[p].currentIsFave = 1
        /\ CopiesIn([userId |-> 2, itemId |-> 1001, isFave |-> 0], authors) = 2
        /\ CopiesIn([userId |-> 1, itemId |-> 1001, isFave |-> 1], authors) = 1

\* The processes whose toggle of (uid, 1001) has returned nil.
Toggled(uid) ==
    {p \in Procs : Done(p, "UpdateAuthorIsFave") /\ req[p].userID = uid /\ resp[p].err = NoErr}

\* C28 (as claimed): when k concurrent toggles of one (userId, authorId) row,
\* which started at 0, have all returned nil, the flag is k mod 2.
C28_NoLostToggle ==
    \A uid \in 1 .. MaxId :
        (/\ Toggled(uid) # {}
         /\ \A p \in Procs : pc[p] \in {"idle", "done"}) =>
            \A r \in RowsOf(authors, uid, 1001) : r.isFave = Cardinality(Toggled(uid)) % 2

\* The toggle operations.
ToggleOps == {"UpdateAuthorIsFave", "UpdateArticleIsFave", "UpdatePoetIsFave"}

\* The table a toggle operation addresses.
TableOf(op) ==
    CASE op = "UpdateAuthorIsFave" -> authors
      [] op = "UpdateArticleIsFave" -> articles
      [] OTHER -> poets

\* C29: a toggle for a (userId, itemId) pair without a row returns a
\* not-found error in the same step and changes no row of the store; a
\* toggle returns nil only if it found a row.
C29_ToggleNotFound ==
    [][\A p \in Clients :
          (/\ pc[p] = "idle" /\ req'[p].op \in ToggleOps
           /\ RowsOf(TableOf(req'[p].op), req'[p].userID, req'[p].itemID) = {}) =>
              /\ pc'[p] = "done"
              /\ resp'[p].err \in {"author not found", "article not found", "poet not found"}
              /\ resp'[p].code = "Internal"
              /\ UNCHANGED store]_vars

\* C29 witness: a toggle for a registered user's id and an item id, issued
\* after the user's rows were deleted, has returned not found.
C29_Witness ==
    \E p \in Procs :
        /\ Done(p, "UpdateAuthorIsFave")
        /\ resp[p].err = "author not found"
        /\ req[p].userID = 1
        /\ deleted # {}
        /\ RowsOf(authors, req[p].userID, req[p].itemID) = {}

\* The keys of a JSON object, in order.
Keys(json) == [i \in 1 .. Len(json) |-> json[i].k]

\* The value of key `k` in a JSON object that has it.
ValueOf(json, k) == json[CHOOSE i \in 1 .. Len(json) : json[i].k = k].v

\* The column of the feed row a feed-revision operation writes.
ColumnOf(op) ==
    CASE op = "FeedUpdateAuthorIsFave" -> "authors"
      [] op = "FeedUpdateArticleIsFave" -> "articles"
      [] OTHER -> "poets"

\* C30 (as claimed): in the feed-JSON revision every entry of every user's
\* three maps has the value "true" or "false", the keys of the maps are the
\* ones SaveUser wrote, and after a call with isFave = v has returned nil the
\* addressed entry is v.
C30_FeedValuesBoolean ==
    /\ \A uid \in DOMAIN feed :
          /\ Keys(feed[uid].authors) = Keys(FeedAuthors)
          /\ Keys(feed[uid].articles) = Keys(FeedArticles)
          /\ Keys(feed[uid].poets) = Keys(FeedPoets)
          /\ \A col \in {"authors", "articles", "poets"} :
                \A i \in 1 .. Len(feed[uid][col]) : feed[uid][col][i].v \in {"true", "false"}
    /\ \A p \in Procs :
          (/\ pc[p] = "done"
           /\ req[p].op \in {"FeedUpdateAuthorIsFave", "FeedUpdateArticleIsFave",
                             "FeedUpdatePoetIsFave"}
           /\ resp[p].err = NoErr) =>
              ValueOf(feed[req[p].userID][ColumnOf(req[p].op)], req[p].itemID) = req[p].isFave

====
